---- MODULE Spec2Model ----
(***************************************************************************)
(* SizeLimitedMap (src/index.ts): a Map with a fixed maximum size that     *)
(* drops its oldest entry when a new key is set on a full map.             *)
(*                                                                         *)
(* The wrapped Map is modelled as ECMAScript defines it: [[MapData]] is a  *)
(* list that only grows; delete and clear overwrite an entry with `empty`  *)
(* and keep its slot; a keys() iterator holds an index into that list,     *)
(* skips empty slots, sees entries appended after its creation and, once   *)
(* it has run off the end, stays done forever.                             *)
(***************************************************************************)
EXTENDS Integers, Sequences, FiniteSets

\* ---- bounds of the model ------------------------------------------------
MaxKey == 2        \* keys are undefined and 1..MaxKey
MaxCap == 2        \* the largest maxSize offered to the constructor
MaxEntries == 2    \* length of the constructor's `entries` argument
MaxData == 4       \* insertions of new keys, i.e. length of [[MapData]]

\* ---- JS values ----------------------------------------------------------
undefined == 0     \* the JS value undefined (a legal key, and get's miss)
empty == -1        \* the `empty` marker of a removed [[MapData]] entry

Keys == {undefined} \cup (1..MaxKey)
\* The code stores and returns values and never looks at them: two values
\* are what it takes to tell an overwrite from its absence.
Values == {1, 2}

\* A JS value handed to the constructor as maxSize.  Finite numbers are
\* kept in halves (h = 2 * value) so that non-integral sizes exist.
Num(h) == [t |-> "fin", h |-> h]
NaN == [t |-> "nan", h |-> 0]
Infinity == [t |-> "inf", h |-> 1]
NegInfinity == [t |-> "inf", h |-> -1]
NotANumber == [t |-> "str", h |-> 0]
MaxSizeInputs ==
    {NotANumber, NaN, Infinity, NegInfinity}
        \cup {Num(2 * n) : n \in -1..MaxCap}
        \cup {Num(1), Num(2 * MaxCap - 1)}

IsNumber(x) == x.t # "str"
IsNaN(x) == x.t = "nan"
IsFinite(x) == x.t = "fin"
IsInteger(x) == x.t = "fin" /\ x.h % 2 = 0
\* x < n for a JS number x and an integer n
NumLt(x, n) ==
    CASE x.t = "fin" -> x.h < 2 * n
      [] x.t = "inf" -> x.h < 0
      [] OTHER -> FALSE
\* n >= x for an integer n and a JS number x
IntGe(n, x) ==
    CASE x.t = "fin" -> 2 * n >= x.h
      [] x.t = "inf" -> x.h < 0
      [] OTHER -> FALSE
\* n = x for an integer n and a JS number x
IntEq(n, x) == x.t = "fin" /\ 2 * n = x.h

\* ---- the built-in Map ---------------------------------------------------
Entry(k, v) == [key |-> k, value |-> v]
EmptyEntry == Entry(empty, empty)
EntryInputs == {Entry(k, v) : k \in Keys, v \in Values}

RECURSIVE SeqsUpTo(_, _)
SeqsUpTo(S, n) ==
    IF n = 0 THEN {<<>>}
    ELSE LET shorter == SeqsUpTo(S, n - 1)
         IN  shorter \cup {Append(s, x) : s \in {q \in shorter : Len(q) = n - 1}, x \in S}

\* index of key k in [[MapData]], 0 when absent
MapIndex(m, k) ==
    IF \E i \in 1..Len(m) : m[i].key = k
    THEN CHOOSE i \in 1..Len(m) : m[i].key = k
    ELSE 0

MapHas(m, k) == MapIndex(m, k) # 0
MapGet(m, k) == IF MapHas(m, k) THEN m[MapIndex(m, k)].value ELSE undefined
MapSize(m) == Cardinality({i \in 1..Len(m) : m[i].key # empty})
\* set, with the bug of a new key written into the first removed entry's
\* place instead of being appended
MapSetReuse(m, k, v) ==
    IF \E i \in 1..Len(m) : m[i].key = k
    THEN [m EXCEPT ![CHOOSE i \in 1..Len(m) : m[i].key = k].value = v]
    ELSE IF \E i \in 1..Len(m) : m[i].key = empty
    THEN [m EXCEPT ![CHOOSE i \in 1..Len(m) :
                        /\ m[i].key = empty
                        /\ \A j \in 1..(i - 1) : m[j].key # empty] = [key |-> k, value |-> v]]
    ELSE Append(m, [key |-> k, value |-> v])
MapSet(m, k, v) ==
    IF MapHas(m, k)
    THEN [m EXCEPT ![MapIndex(m, k)].value = v]
    ELSE Append(m, Entry(k, v))
MapDelete(m, k) ==
    IF MapHas(m, k)
    THEN [m EXCEPT ![MapIndex(m, k)] = EmptyEntry]
    ELSE m
\* clear, with the bug of a list that is cut to nothing under a live iterator
MapClearTruncate(m) == <<>>
MapClear(m) == [i \in 1..Len(m) |-> EmptyEntry]

RECURSIVE MapNew(_)
MapNew(es) ==
    IF es = <<>> THEN <<>>
    ELSE LET n == Len(es)
         IN  MapSet(MapNew(SubSeq(es, 1, n - 1)), es[n].key, es[n].value)

\* the entries of the map in iteration order
MapEntries(m) == SelectSeq(m, LAMBDA e : e.key # empty)
RECURSIVE KeysOf(_)
KeysOf(es) == IF es = <<>> THEN <<>> ELSE <<Head(es).key>> \o KeysOf(Tail(es))
MapKeys(m) == KeysOf(MapEntries(m))
MapValues(m) == [i \in 1..Len(MapEntries(m)) |-> MapEntries(m)[i].value]
\* Map.prototype.forEach: the calls it makes, as <<value, key>>
MapForEach(m) ==
    [i \in 1..Len(MapEntries(m)) |-> <<MapEntries(m)[i].value, MapEntries(m)[i].key>>]

\* A keys() iterator: `index` slots of [[MapData]] are behind it.
NewIterator == [index |-> 0, done |-> FALSE]
\* next(), with the bug of an iterator that does not skip removed entries
IterStopNoSkip(m, it) ==
    IF it.done \/ it.index >= Len(m) THEN 0 ELSE it.index + 1
\* the slot the next step of iterator `it` stops at, 0 when there is none
IterStop(m, it) ==
    LET ahead == {i \in (it.index + 1)..Len(m) : m[i].key # empty}
    IN  IF it.done \/ ahead = {} THEN 0
        ELSE CHOOSE i \in ahead : \A j \in ahead : i <= j
IterNextValue(m, it) ==
    IF IterStop(m, it) = 0 THEN undefined ELSE m[IterStop(m, it)].key
IterNextState(m, it) ==
    IF it.done THEN it
    ELSE IF IterStop(m, it) = 0 THEN [index |-> Len(m), done |-> TRUE]
    ELSE [index |-> IterStop(m, it), done |-> FALSE]

\* ---- the reference model of the specification ---------------------------
\* An explicit queue of the live entries, oldest first: a new key goes to the
\* tail, an overwrite keeps its place, delete removes the key's entry, and a
\* new key that would take the queue past capacity n first drops the head.
NumGe(x, n) ==
    CASE x.t = "fin" -> x.h >= 2 * n
      [] x.t = "inf" -> x.h > 0
      [] OTHER -> FALSE
RefIndex(q, k) ==
    IF \E i \in 1..Len(q) : q[i].key = k
    THEN CHOOSE i \in 1..Len(q) : q[i].key = k
    ELSE 0
RefSet(q, n, k, v) ==
    IF RefIndex(q, k) # 0 THEN [q EXCEPT ![RefIndex(q, k)].value = v]
    ELSE IF ~NumGe(n, Len(q) + 1) /\ q # <<>> THEN Append(Tail(q), Entry(k, v))
    ELSE Append(q, Entry(k, v))
RefDelete(q, k) == SelectSeq(q, LAMBDA e : e.key # k)
RECURSIVE RefLoad(_, _)
RefLoad(es, n) ==
    IF es = <<>> THEN <<>>
    ELSE LET i == Len(es)
         IN  RefSet(RefLoad(SubSeq(es, 1, i - 1), n), n, es[i].key, es[i].value)

\* ---- SizeLimitedMap -----------------------------------------------------
VARIABLES
    pc,            \* "new" before the constructor ran, then "ready" or "threw"
    maxSize,       \* this.maxSize
    map,           \* this.map, as its [[MapData]] list
    keysIterator,  \* this.keysIterator
    last           \* the last call: its name, arguments and outcome

vars == <<pc, maxSize, map, keysIterator, last>>

\* A call: `ret` is what it returned (or the message it threw; for entries,
\* keys and values what the returned iterator yields when it is drained at
\* once; for forEach the calls made to cb, as <<value, key, map>>); for set,
\* `had` is the outcome of line 49 and `evict` what line 55 handed to
\* this.map.delete (empty when line 55 did not run).
Call(op, args, ret, had, evict) ==
    [op |-> op, args |-> args, ret |-> ret, had |-> had, evict |-> evict]

Init ==
    /\ pc = "new"
    /\ maxSize = NotANumber
    /\ map = <<>>
    /\ keysIterator = NewIterator
    /\ last = Call("none", <<>>, undefined, FALSE, empty)

\* the two guards of the constructor
NotNumberError(ms) == ~IsNumber(ms) \/ IsNaN(ms)
\* line 36, with the bug of leaving out the isFinite test
RangeErrorNoFinite(ms) == NumLt(ms, 1)
RangeError(ms) == NumLt(ms, 1) \/ ~IsFinite(ms)

Constructor(ms, es) ==
    /\ pc = "new"
    /\ IF NotNumberError(ms)
       THEN /\ pc' = "threw"
            /\ last' = Call("new", <<ms, es>>, "Cache size must be a number", FALSE, empty)
            /\ UNCHANGED <<maxSize, map, keysIterator>>
       ELSE IF RangeError(ms)
       THEN /\ pc' = "threw"
            /\ last' = Call("new", <<ms, es>>,
                            "Cache size must at least be 1, and finite.", FALSE, empty)
            /\ UNCHANGED <<maxSize, map, keysIterator>>
       ELSE /\ pc' = "ready"
            /\ maxSize' = ms
            /\ map' = MapNew(es)
            /\ keysIterator' = NewIterator
            /\ last' = Call("new", <<ms, es>>, "this", FALSE, empty)

\* set(key, value)
\* line 54, with the bug of a strict comparison
SetFullStrict(m, ms) == IntGe(MapSize(m), ms) /\ ~IntEq(MapSize(m), ms)
\* line 54, with the bug of evicting one key early
SetFullEarly(m, ms) == IntGe(MapSize(m) + 1, ms)
SetFull(m, ms) == IntGe(MapSize(m), ms)
SetEvicts(m, ms, k) == ~MapHas(m, k) /\ SetFull(m, ms)
\* line 55, with the bug of dropping the newest key instead of the oldest
SetEvictKeyNewest(m, it) ==
    IF MapKeys(m) = <<>> THEN undefined ELSE MapKeys(m)[Len(MapKeys(m))]
SetEvictKey(m, it) == IterNextValue(m, it)
\* lines 49-58, with the bug of leaving out the overwrite of lines 49-52
SetMapEvictOnOverwrite(m, ms, it, k, v) ==
    IF SetFull(m, ms) THEN MapSet(MapDelete(m, SetEvictKey(m, it)), k, v)
    ELSE MapSet(m, k, v)
\* lines 49-58, with the bug of checking the size after the insertion
SetMapEvictAfterInsert(m, ms, it, k, v) ==
    IF MapHas(m, k) THEN MapSet(m, k, v)
    ELSE IF SetFull(MapSet(m, k, v), ms)
    THEN MapDelete(MapSet(m, k, v), SetEvictKey(MapSet(m, k, v), it))
    ELSE MapSet(m, k, v)
\* lines 49-58, with the bug of returning at line 51 without the write of line 50
SetMapNoOverwrite(m, ms, it, k, v) ==
    IF MapHas(m, k) THEN m
    ELSE IF SetFull(m, ms) THEN MapSet(MapDelete(m, SetEvictKey(m, it)), k, v)
    ELSE MapSet(m, k, v)
\* lines 49-58, with the bug of an overwrite that deletes and inserts again
SetMapReinsert(m, ms, it, k, v) ==
    IF MapHas(m, k) THEN MapSet(MapDelete(m, k), k, v)
    ELSE IF SetFull(m, ms) THEN MapSet(MapDelete(m, SetEvictKey(m, it)), k, v)
    ELSE MapSet(m, k, v)
\* lines 54-58, with the bug of a next() whose key is not deleted
SetMapNoDelete(m, ms, it, k, v) == MapSet(m, k, v)
SetMap(m, ms, it, k, v) ==
    IF MapHas(m, k) THEN MapSet(m, k, v)
    ELSE IF SetFull(m, ms) THEN MapSet(MapDelete(m, SetEvictKey(m, it)), k, v)
    ELSE MapSet(m, k, v)
\* lines 54-56, with the bug of a next() made for every new key
SetIteratorAlways(m, ms, it, k) ==
    IF MapHas(m, k) THEN it ELSE IterNextState(m, it)
SetIterator(m, ms, it, k) ==
    IF SetEvicts(m, ms, k) THEN IterNextState(m, it) ELSE it

Set(k, v) ==
    /\ pc = "ready"
    /\ MapHas(map, k) \/ Len(map) < MaxData
    /\ map' = SetMap(map, maxSize, keysIterator, k, v)
    /\ keysIterator' = SetIterator(map, maxSize, keysIterator, k)
    /\ last' = Call("set", <<k, v>>, "this", MapHas(map, k),
                    IF SetEvicts(map, maxSize, k)
                    THEN SetEvictKey(map, keysIterator) ELSE empty)
    /\ UNCHANGED <<pc, maxSize>>

DeleteMap(m, k) == MapDelete(m, k)
\* line 82, with the bug of reporting a removal whatever happened
DeleteRetAlways(m, k) == TRUE
DeleteRet(m, k) == MapHas(m, k)

Delete(k) ==
    /\ pc = "ready"
    /\ map' = DeleteMap(map, k)
    /\ last' = Call("delete", <<k>>, DeleteRet(map, k), FALSE, empty)
    /\ UNCHANGED <<pc, maxSize, keysIterator>>

\* clear, with the bug of a cursor that is created anew
ClearResetsCursor ==
    /\ pc = "ready"
    /\ map' = MapClear(map)
    /\ keysIterator' = NewIterator
    /\ last' = Call("clear", <<>>, undefined, FALSE, empty)
    /\ UNCHANGED <<pc, maxSize>>

Clear ==
    /\ pc = "ready"
    /\ map' = MapClear(map)
    /\ last' = Call("clear", <<>>, undefined, FALSE, empty)
    /\ UNCHANGED <<pc, maxSize, keysIterator>>

\* get, with the bug of an access-ordered (LRU) cache: a read moves the key
\* to the end of the insertion order
GetLru(k) ==
    /\ pc = "ready"
    /\ map' = IF MapHas(map, k)
              THEN MapSet(MapDelete(map, k), k, MapGet(map, k)) ELSE map
    /\ last' = Call("get", <<k>>, MapGet(map, k), FALSE, empty)
    /\ UNCHANGED <<pc, maxSize, keysIterator>>

Get(k) ==
    /\ pc = "ready"
    /\ last' = Call("get", <<k>>, MapGet(map, k), FALSE, empty)
    /\ UNCHANGED <<pc, maxSize, map, keysIterator>>

Has(k) ==
    /\ pc = "ready"
    /\ last' = Call("has", <<k>>, MapHas(map, k), FALSE, empty)
    /\ UNCHANGED <<pc, maxSize, map, keysIterator>>

Size ==
    /\ pc = "ready"
    /\ last' = Call("size", <<>>, MapSize(map), FALSE, empty)
    /\ UNCHANGED <<pc, maxSize, map, keysIterator>>

\* line 69, with the bug of plain delegation: cb is handed the inner Map
ForEachCallsDelegated(m) ==
    [i \in 1..Len(MapForEach(m)) |-> <<MapForEach(m)[i][1], MapForEach(m)[i][2], "this.map">>]
\* the calls line 69 makes to cbBound
ForEachCalls(m) ==
    [i \in 1..Len(MapForEach(m)) |-> <<MapForEach(m)[i][1], MapForEach(m)[i][2], "this">>]

ForEach ==
    /\ pc = "ready"
    /\ last' = Call("forEach", <<>>, ForEachCalls(map), FALSE, empty)
    /\ UNCHANGED <<pc, maxSize, map, keysIterator>>

CallEntries ==
    /\ pc = "ready"
    /\ last' = Call("entries", <<>>, MapEntries(map), FALSE, empty)
    /\ UNCHANGED <<pc, maxSize, map, keysIterator>>

CallKeys ==
    /\ pc = "ready"
    /\ last' = Call("keys", <<>>, MapKeys(map), FALSE, empty)
    /\ UNCHANGED <<pc, maxSize, map, keysIterator>>

CallValues ==
    /\ pc = "ready"
    /\ last' = Call("values", <<>>, MapValues(map), FALSE, empty)
    /\ UNCHANGED <<pc, maxSize, map, keysIterator>>

Calls ==
    \/ \E k \in Keys, v \in Values : Set(k, v)
    \/ \E k \in Keys : Delete(k)
    \/ Clear
    \/ \E k \in Keys : Get(k)
    \/ \E k \in Keys : Has(k)
    \/ Size
    \/ ForEach
    \/ CallEntries
    \/ CallKeys
    \/ CallValues

Next ==
    \/ /\ pc = "new"
       /\ \E ms \in MaxSizeInputs, es \in SeqsUpTo(EntryInputs, MaxEntries) : Constructor(ms, es)
    \/ Calls

Spec == Init /\ [][Next]_vars

\* the maps that are constructed without initial entries
NextNoEntries ==
    \/ /\ pc = "new"
       /\ \E ms \in MaxSizeInputs : Constructor(ms, <<>>)
    \/ Calls

SpecNoEntries == Init /\ [][NextNoEntries]_vars

\* ---- the observable state -----------------------------------------------
size == MapSize(map)
has(k) == MapHas(map, k)
get(k) == MapGet(map, k)
keys == MapKeys(map)

TypeOK ==
    /\ pc \in {"new", "ready", "threw"}
    /\ keysIterator.index \in 0..Len(map)
    /\ Len(map) <= MaxData

\* C1: a map constructed with an integer capacity N >= 1 and no initial
\* entries never holds more than N entries, whatever set and delete calls
\* (and clear calls and reads) are made on it.
C1_SizeWithinCapacity ==
    pc = "ready" /\ IsInteger(maxSize) => NumGe(maxSize, size)
\* a full map right after a set that evicted
C1_Witness ==
    /\ pc = "ready" /\ IsInteger(maxSize)
    /\ last.op = "set" /\ last.evict # empty
    /\ IntEq(size, maxSize)

\* C2: a set that evicts removes the key that is the oldest of the keys
\* present, i.e. the live key at the lowest slot of [[MapData]] (a slot is
\* taken when a key is inserted as a new key and kept across overwrites),
\* and leaves the other keys in their order with the new key last.
C2_EvictsOldest ==
    [][last'.op = "set" /\ SetEvicts(map, maxSize, last'.args[1])
         => /\ keys # <<>>
            /\ last'.evict = Head(keys)
            /\ \A k \in Keys : has(k) => MapIndex(map, last'.evict) <= MapIndex(map, k)
            /\ MapKeys(map') = Append(Tail(keys), last'.args[1])]_vars
\* an eviction that left other, younger keys in the map
C2_Witness ==
    /\ last.op = "set" /\ last.evict # empty
    /\ ~has(last.evict)
    /\ size >= 2

\* C3: on a map of integer capacity N constructed empty, every operation
\* takes the entries of the map (keys, values, order) to what the reference
\* model's operation makes of them: the new map is empty, set is RefSet,
\* delete is RefDelete, clear empties, and a read changes nothing.
C3_ModelEquivalence ==
    [][pc' = "ready" /\ IsInteger(maxSize')
         => CASE last'.op = "new" -> MapEntries(map') = <<>>
              [] last'.op = "set" ->
                    MapEntries(map') =
                        RefSet(MapEntries(map), maxSize, last'.args[1], last'.args[2])
              [] last'.op = "delete" ->
                    MapEntries(map') = RefDelete(MapEntries(map), last'.args[1])
              [] last'.op = "clear" -> MapEntries(map') = <<>>
              [] OTHER -> MapEntries(map') = MapEntries(map)]_vars
\* an eviction on a map that has a deleted entry the cursor has not reached
C3_Witness ==
    /\ pc = "ready" /\ IsInteger(maxSize)
    /\ last.op = "set" /\ last.evict # empty
    /\ Len(map) > keysIterator.index + size

\* C4: right after set(k, v) the key k is present with the value v, also
\* when the call evicted a key.
C4_SetKeyPresent ==
    last.op = "set" => has(last.args[1]) /\ get(last.args[1]) = last.args[2]
\* a set of a new key that evicted while the map held one key only
C4_Witness ==
    /\ last.op = "set" /\ last.evict # empty
    /\ size = 1 /\ has(last.args[1])

\* the state that set calls, one per entry and in order, make of an empty map
RECURSIVE SetEach(_, _)
SetEach(es, ms) ==
    IF es = <<>> THEN [m |-> <<>>, it |-> NewIterator]
    ELSE LET n == Len(es)
             before == SetEach(SubSeq(es, 1, n - 1), ms)
         IN  [m |-> SetMap(before.m, ms, before.it, es[n].key, es[n].value),
              it |-> SetIterator(before.m, ms, before.it, es[n].key)]

\* C5: a map constructed with integer capacity N and initial entries holds
\* the entries that one set call per entry, in order, would have left in an
\* empty map of capacity N, and holds at most N of them.
C5_ConstructorLoadsLikeSet ==
    pc = "ready" /\ last.op = "new" /\ IsInteger(maxSize)
        => /\ MapEntries(map) = MapEntries(SetEach(last.args[2], maxSize).m)
           /\ NumGe(maxSize, size)

\* C6: set on a key that is present changes that key's value and nothing
\* else: nothing is evicted, the cursor stays where it was, and every slot
\* of [[MapData]] keeps its key (so the size and the order of the keys are
\* the same) and, but for the key that was set, its value.
C6_OverwriteInPlace ==
    [][last'.op = "set" /\ has(last'.args[1])
         => /\ last'.evict = empty
            /\ keysIterator' = keysIterator
            /\ Len(map') = Len(map)
            /\ \A i \in 1..Len(map) :
                 /\ map'[i].key = map[i].key
                 /\ map'[i].value =
                        IF map[i].key = last'.args[1] THEN last'.args[2] ELSE map[i].value]_vars
\* the oldest key of a full map of several keys was overwritten
C6_Witness ==
    /\ last.op = "set" /\ last.had
    /\ size >= 2 /\ IntGe(size, maxSize)
    /\ Head(keys) = last.args[1]

\* C7: delete(k) returns whether k was present; k is absent afterwards; the
\* size drops by one if k was present and the map is untouched if it was
\* not; the other entries keep their values and their order.
C7_DeleteRemovesKey ==
    [][last'.op = "delete"
         => /\ last'.ret = has(last'.args[1])
            /\ ~MapHas(map', last'.args[1])
            /\ MapSize(map') = IF has(last'.args[1]) THEN size - 1 ELSE size
            /\ ~has(last'.args[1]) => map' = map
            /\ MapEntries(map') = RefDelete(MapEntries(map), last'.args[1])]_vars
\* a delete that removed a key and left others
C7_Witness ==
    /\ last.op = "delete" /\ last.ret = TRUE
    /\ size >= 1

\* C8: the constructor throws, and leaves no map, for a maxSize that is not
\* a number, is NaN, is below 1 or is infinite; it succeeds for every finite
\* integer from 1 up; and nothing but the constructor throws.
C8_ConstructorValidation ==
    /\ pc = "threw" => last.op = "new" /\ map = <<>>
    /\ last.op = "new"
        => /\ \/ last.args[1].t \in {"str", "nan", "inf"}
              \/ last.args[1].t = "fin" /\ last.args[1].h < 2
              => pc = "threw"
           /\ last.args[1].t = "fin" /\ last.args[1].h >= 2 /\ last.args[1].h % 2 = 0
              => pc = "ready" /\ maxSize = last.args[1]
\* the constructor threw on Infinity
C8_Witness ==
    /\ pc = "threw" /\ last.op = "new"
    /\ last.args[1] = Infinity

\* C9: a key that stays present keeps its value through every call that is
\* not a set of that key, and a set of the key leaves the value it was
\* given: a present key holds the value of the most recent set of it.
C9_ValueOfLastSet ==
    [][/\ map' # map
            => \A k \in Keys :
                 has(k) /\ MapHas(map', k) /\ ~(last'.op = "set" /\ last'.args[1] = k)
                     => MapGet(map', k) = get(k)
       /\ last'.op = "set" => MapGet(map', last'.args[1]) = last'.args[2]]_vars
\* a new key was inserted with an eviction and an older key is still there
\* with its value
C9_Witness ==
    /\ last.op = "set" /\ ~last.had /\ last.evict # empty
    /\ \E k \in Keys : k # last.args[1] /\ has(k) /\ get(k) = 2

\* C10: a key leaves the map only by delete of that key, by clear, or by the
\* eviction of a set of another, absent key made while size == capacity; a
\* set of a new key while size < capacity appends it, adds one to the size
\* and removes nothing; an evicting set removes exactly one key.
C10_KeysLeaveOnlyWhenFull ==
    [][pc = "ready"
         => /\ \A k \in Keys :
                 has(k) /\ ~MapHas(map', k)
                     => \/ last'.op = "delete" /\ last'.args[1] = k
                        \/ last'.op = "clear"
                        \/ /\ last'.op = "set" /\ last'.args[1] # k
                           /\ ~has(last'.args[1])
                           /\ IntEq(size, maxSize)
            /\ last'.op = "set" /\ ~has(last'.args[1]) /\ ~IntGe(size, maxSize)
                 => /\ MapKeys(map') = Append(keys, last'.args[1])
                    /\ MapSize(map') = size + 1
            /\ last'.op = "set" /\ last'.evict # empty
                 => Cardinality({k \in Keys : has(k) /\ ~MapHas(map', k)}) = 1]_vars

\* the map a constructor call with the entries of m, in their order, creates
Fresh(m) == MapNew(MapEntries(m))

\* C11: clear leaves no key and size 0; from then on (as from any state that
\* is within an integer capacity) the size stays within the capacity, and
\* every set does to the entries what it does to a newly constructed map
\* holding the same entries, cursor at its start: what the cursor went
\* through before the clear has no effect.
C11_ClearStartsAfresh ==
    [][pc = "ready"
         => /\ last'.op = "clear"
                 => MapSize(map') = 0 /\ \A k \in Keys : ~MapHas(map', k)
            /\ IsInteger(maxSize) /\ NumGe(maxSize, size)
                 => NumGe(maxSize, MapSize(map'))
            /\ last'.op = "set"
                 => MapEntries(map') =
                      MapEntries(SetMap(Fresh(map), maxSize, NewIterator,
                                        last'.args[1], last'.args[2]))]_vars
\* a clear of a map whose cursor had moved, leaving removed entries ahead of it
C11_Witness ==
    /\ last.op = "clear"
    /\ keysIterator.index > 0
    /\ Len(map) >= keysIterator.index + 2
    /\ size = 0

\* C12: a set that reaches the eviction step removes exactly one key that
\* was present, whatever was deleted before, and leaves the size as it was.
C12_EvictionSkipsDeleted ==
    [][last'.op = "set" /\ SetEvicts(map, maxSize, last'.args[1])
         => /\ last'.evict \in Keys
            /\ has(last'.evict)
            /\ ~MapHas(map', last'.evict)
            /\ MapSize(map') = size]_vars
\* a full map after an eviction, with a deleted entry that the cursor has
\* still to skip
C12_Witness ==
    /\ last.op = "set" /\ last.evict # empty
    /\ IntEq(size, maxSize)
    /\ \E i \in (keysIterator.index + 1)..Len(map) : map[i].key = empty

\* C13: get and has return the stored value and the presence of the key and
\* change nothing: entries, their slots and order, size, capacity and the
\* cursor are as before, so the key the next eviction takes is the same.
C13_ReadsChangeNothing ==
    [][last'.op \in {"get", "has"}
         => /\ map' = map
            /\ keysIterator' = keysIterator
            /\ maxSize' = maxSize /\ pc' = pc
            /\ MapKeys(map') = keys /\ MapSize(map') = size
            /\ SetEvictKey(map', keysIterator') = SetEvictKey(map, keysIterator)
            /\ last'.op = "get" => last'.ret = get(last'.args[1])
            /\ last'.op = "has" => last'.ret = has(last'.args[1])]_vars
\* a get of the oldest key of a full map of more than one key
C13_Witness ==
    /\ last.op = "get" /\ last.ret # undefined
    /\ IntGe(size, maxSize) /\ size > 1
    /\ keys[1] = last.args[1]

\* the number of present entries in the slots up to slot i: the place in the
\* insertion order of a present key whose slot is i
Place(m, i) == Cardinality({j \in 1..i : m[j].key # empty})

\* C14: keys(), values(), entries() and forEach give the present entries,
\* each once, in insertion order, and change nothing; a key's place in that
\* order is fixed when it is inserted as a new key (behind all keys present)
\* and is kept for as long as it stays present, overwrites included.
C14_IterationInInsertionOrder ==
    [][/\ last'.op \in {"keys", "values", "entries", "forEach"}
            => /\ map' = map /\ keysIterator' = keysIterator
               /\ Len(last'.ret) = size
               /\ \A i \in 1..Len(map) :
                    LET k == map[i].key
                        p == Place(map, i)
                    IN  k # empty
                          => CASE last'.op = "keys" -> last'.ret[p] = k
                               [] last'.op = "values" -> last'.ret[p] = get(k)
                               [] last'.op = "entries" -> last'.ret[p] = Entry(k, get(k))
                               [] last'.op = "forEach" -> last'.ret[p] = <<get(k), k, "this">>
       /\ pc = "ready" /\ map' # map
            => \A k \in Keys :
                 /\ has(k) /\ MapHas(map', k) => MapIndex(map', k) = MapIndex(map, k)
                 /\ ~has(k) /\ MapHas(map', k)
                      => \A j \in Keys \ {k} : MapIndex(map', j) < MapIndex(map', k)]_vars
\* forEach on a map that has seen an eviction and holds two keys with
\* different values
C14_Witness ==
    /\ last.op = "forEach" /\ Len(last.ret) = 2
    /\ keysIterator.index > 0
    /\ last.ret[1][1] # last.ret[2][1]

\* C15: the cursor of a constructed map is never exhausted, and whenever the
\* map is full (so that a set of an absent key reaches the eviction step)
\* the cursor's next step stops at a key that is present.
C15_CursorNeverExhausted ==
    pc = "ready"
        => /\ ~keysIterator.done
           /\ IntGe(size, maxSize)
                => /\ IterStop(map, keysIterator) # 0
                   /\ map[IterStop(map, keysIterator)].key # empty
                   /\ has(IterNextValue(map, keysIterator))
\* a full map right after an eviction, the cursor past two slots and a
\* removed entry still ahead of it
C15_Witness ==
    /\ pc = "ready"
    /\ IntGe(size, maxSize)
    /\ last.op = "set" /\ last.evict # empty
    /\ keysIterator.index >= 2
    /\ \E i \in (keysIterator.index + 1)..Len(map) : map[i].key = empty

\* C16: the cursor is created by the constructor, at the start of the key
\* sequence; afterwards only a set that evicts changes it, by one next()
\* step (to the slot of the key that set evicts, the first present key ahead
\* of it), and its position never decreases.
C16_CursorMovesOnlyOnEviction ==
    [][/\ pc = "new" /\ pc' = "ready" => keysIterator' = NewIterator
       /\ pc = "ready"
            => /\ keysIterator' # keysIterator
                    => last'.op = "set" /\ SetEvicts(map, maxSize, last'.args[1])
               /\ last'.op = "set" /\ SetEvicts(map, maxSize, last'.args[1])
                    => /\ keysIterator'.index > keysIterator.index
                       /\ keysIterator'.index = MapIndex(map, last'.evict)
                       /\ \A i \in (keysIterator.index + 1)..(keysIterator'.index - 1) :
                            map[i].key = empty
               /\ keysIterator'.index >= keysIterator.index]_vars
\* a delete that removed a key, on a map whose cursor had moved twice
C16_Witness ==
    /\ last.op = "delete" /\ last.ret = TRUE
    /\ keysIterator.index >= 2
    /\ size >= 1

\* C17: every constructed map has a capacity that is a finite integer >= 1,
\* and, constructed without entries, never holds more entries than that.
C17_CapacityIsInteger ==
    pc = "ready"
        => /\ IsInteger(maxSize) /\ IsFinite(maxSize) /\ ~NumLt(maxSize, 1)
           /\ NumGe(maxSize, size)

\* C18: a set of an absent key, a key deleted before included, puts the key
\* in a new slot behind every present key, the last place of the insertion
\* order, and never back in a place it held before; and an eviction takes a
\* key that is older than every other present key, so that the key leaves
\* by eviction only after all keys present when it was set again have left.
C18_ReinsertedKeyIsNewest ==
    [][/\ last'.op = "set" /\ ~has(last'.args[1])
            => /\ Len(map') = Len(map) + 1
               /\ MapIndex(map', last'.args[1]) = Len(map')
               /\ MapKeys(map')[MapSize(map')] = last'.args[1]
               /\ \A j \in Keys \ {last'.args[1]} :
                    MapHas(map', j)
                        => /\ has(j)
                           /\ MapIndex(map', j) < MapIndex(map', last'.args[1])
       /\ last'.op = "set" /\ last'.evict # empty
            => \A j \in Keys \ {last'.evict} :
                 has(j) => MapIndex(map, last'.evict) < MapIndex(map, j)]_vars
\* a set of an absent key on a map that has taken more new keys than there
\* are keys without ever evicting: on the way here a key was removed by
\* delete or clear and set again
C18_Witness ==
    /\ last.op = "set" /\ ~last.had
    /\ keysIterator.index = 0
    /\ Len(map) > Cardinality(Keys)
    /\ size >= 2

\* C19: on a map constructed without entries a key leaves only by a delete
\* of it, by clear, or by the eviction of a set of a new key; when it is
\* evicted, that set is at least the maxSize-th insertion of a new key made
\* after the key's own insertion (every such insertion took one slot behind
\* the key's), so the first maxSize - 1 of them cannot evict it.
C19_MinimumResidency ==
    [][pc = "ready"
         => \A k \in Keys :
              has(k) /\ ~MapHas(map', k)
                 => \/ last'.op = "delete" /\ last'.args = <<k>>
                    \/ last'.op = "clear"
                    \/ /\ last'.op = "set" /\ ~last'.had /\ last'.evict = k
                       /\ IntGe(Len(map) - MapIndex(map, k) + 1, maxSize)
                       /\ IntGe(Len(map') - MapIndex(map, k), maxSize)]_vars
\* a key evicted from a map of capacity 2 by the second new key after it
C19_Witness ==
    /\ last.op = "set" /\ last.evict # empty
    /\ maxSize = Num(4)
    /\ Len(map) - keysIterator.index = 2

\* C20: every slot of the key sequence that the cursor has passed holds a
\* removed entry, so every present key is at a slot ahead of the cursor.
C20_NoLiveKeyBehindCursor ==
    pc = "ready"
        => /\ \A i \in 1..Len(map) : i <= keysIterator.index => map[i].key = empty
           /\ \A k \in Keys : has(k) => MapIndex(map, k) > keysIterator.index
\* present keys ahead of a cursor that has moved, removed entries among them
C20_Witness ==
    /\ keysIterator.index >= 1
    /\ size >= 1
    /\ \E i \in (keysIterator.index + 1)..Len(map) : map[i].key = empty
    /\ last.op = "delete"
====
